---- MODULE Spec2Model ----
(***************************************************************************)
(* Model of the Gematria tool of Shabbot (src/tools/gematria_tool.py).     *)
(*                                                                         *)
(* A Python str is modelled as the sequence of its Unicode code points, so *)
(* the Hebrew letters are 1488..1514, 'a' is 97, ' ' is 32, and every      *)
(* string the code builds (error messages, formatted output) is built here *)
(* code point by code point.  A Python dict is a record (a function on its *)
(* string keys): "error" in result is "error" \in DOMAIN result.  The      *)
(* one-character str of a breakdown entry is its code point.               *)
(***************************************************************************)
EXTENDS Integers, Sequences, FiniteSets, TLC

(***************************************************************************)
(* Bounds of the explored inputs.                                          *)
(***************************************************************************)
\* longest input enumerated over InputChars
MaxLen == 3
\* longest input enumerated over RepeatChars
MaxRepeatLen == 2
\* largest amount by which a dict handed to format_result by a caller
\* differs, in 'value' or in 'character_count', from a calculated one
MaxSkew == 2
\* number of concurrent callers
NumCallers == 2
\* largest number of tools that the Jewish Calendar MCP server hands out
MaxMcpTools == 2
\* largest number of queries that main() hands to the agent in a run
MaxQueries == 2
\* largest number of send_message calls in a run
MaxSends == 2

(***************************************************************************)
(* GematriaCalculator.__init__: the letter-value table.                    *)
(***************************************************************************)
\* Variant of the table with the final forms valued 500 to 900.
InitialTableFinalsExtended ==
    [c \in 1488..1514 |->
        CASE c = 1498 -> 500
          [] c = 1501 -> 600
          [] c = 1503 -> 700
          [] c = 1507 -> 800
          [] c = 1509 -> 900
          [] c \in 1488..1497 -> c - 1487
          [] c \in {1499, 1500} -> 20 + 10 * (c - 1499)
          [] c = 1502 -> 40
          [] c \in {1504, 1505, 1506} -> 50 + 10 * (c - 1504)
          [] c = 1508 -> 80
          [] c = 1510 -> 90
          [] OTHER -> 100 * (c - 1510)]

\* self.hebrew_values = {...}
InitialTable ==
       1488 :> 1    \* Alef
    @@ 1489 :> 2    \* Bet
    @@ 1490 :> 3    \* Gimel
    @@ 1491 :> 4    \* Dalet
    @@ 1492 :> 5    \* He
    @@ 1493 :> 6    \* Vav
    @@ 1494 :> 7    \* Zayin
    @@ 1495 :> 8    \* Chet
    @@ 1496 :> 9    \* Tet
    @@ 1497 :> 10    \* Yud
    @@ 1499 :> 20    \* Kaf
    @@ 1500 :> 30    \* Lamed
    @@ 1502 :> 40    \* Mem
    @@ 1504 :> 50    \* Nun
    @@ 1505 :> 60    \* Samech
    @@ 1506 :> 70    \* Ayin
    @@ 1508 :> 80    \* Pe
    @@ 1510 :> 90    \* Tzadi
    @@ 1511 :> 100    \* Kuf
    @@ 1512 :> 200    \* Resh
    @@ 1513 :> 300    \* Shin
    @@ 1514 :> 400    \* Tav
    @@ 1498 :> 20    \* Final Kaf
    @@ 1501 :> 40    \* Final Mem
    @@ 1503 :> 50    \* Final Nun
    @@ 1507 :> 80    \* Final Pe
    @@ 1509 :> 90    \* Final Tzadi

\* letter_names of _get_hebrew_letter_name
letter_names ==
       1488 :> <<65, 108, 101, 102>>    \* Alef
    @@ 1489 :> <<66, 101, 116>>    \* Bet
    @@ 1490 :> <<71, 105, 109, 101, 108>>    \* Gimel
    @@ 1491 :> <<68, 97, 108, 101, 116>>    \* Dalet
    @@ 1492 :> <<72, 101>>    \* He
    @@ 1493 :> <<86, 97, 118>>    \* Vav
    @@ 1494 :> <<90, 97, 121, 105, 110>>    \* Zayin
    @@ 1495 :> <<67, 104, 101, 116>>    \* Chet
    @@ 1496 :> <<84, 101, 116>>    \* Tet
    @@ 1497 :> <<89, 117, 100>>    \* Yud
    @@ 1499 :> <<75, 97, 102>>    \* Kaf
    @@ 1500 :> <<76, 97, 109, 101, 100>>    \* Lamed
    @@ 1502 :> <<77, 101, 109>>    \* Mem
    @@ 1504 :> <<78, 117, 110>>    \* Nun
    @@ 1505 :> <<83, 97, 109, 101, 99, 104>>    \* Samech
    @@ 1506 :> <<65, 121, 105, 110>>    \* Ayin
    @@ 1508 :> <<80, 101>>    \* Pe
    @@ 1510 :> <<84, 122, 97, 100, 105>>    \* Tzadi
    @@ 1511 :> <<75, 117, 102>>    \* Kuf
    @@ 1512 :> <<82, 101, 115, 104>>    \* Resh
    @@ 1513 :> <<83, 104, 105, 110>>    \* Shin
    @@ 1514 :> <<84, 97, 118>>    \* Tav
    @@ 1498 :> <<70, 105, 110, 97, 108, 32, 75, 97, 102>>    \* Final Kaf
    @@ 1501 :> <<70, 105, 110, 97, 108, 32, 77, 101, 109>>    \* Final Mem
    @@ 1503 :> <<70, 105, 110, 97, 108, 32, 78, 117, 110>>    \* Final Nun
    @@ 1507 :> <<70, 105, 110, 97, 108, 32, 80, 101>>    \* Final Pe
    @@ 1509 :> <<70, 105, 110, 97, 108, 32, 84, 122, 97, 100, 105>>    \* Final Tzadi

\* letter_names.get(char, char)
GetHebrewLetterName(char) ==
    IF char \in DOMAIN letter_names THEN letter_names[char] ELSE <<char>>

(***************************************************************************)
(* String literals of the source, as code points.                          *)
(***************************************************************************)
\* 'No text provided'
ErrNoText ==
    <<78, 111, 32, 116, 101, 120, 116, 32, 112, 114, 111, 118, 105, 100, 101, 100>>
\* 'No Hebrew characters found in text'
ErrNoHebrew ==
    <<78, 111, 32, 72, 101, 98, 114, 101, 119, 32, 99, 104, 97, 114, 97, 99, 116, 101, 114, 115, 32, 102, 111, 117, 110, 100, 32, 105, 110, 32, 116, 101, 120, 116>>
\* 'Error: '
ToolErrorPrefix ==
    <<69, 114, 114, 111, 114, 58, 32>>
\* '❌ '
FmtErrorPrefix ==
    <<10060, 32>>
\* '📊 Gematria Calculation for: '
FmtTitle ==
    <<128202, 32, 71, 101, 109, 97, 116, 114, 105, 97, 32, 67, 97, 108, 99, 117, 108, 97, 116, 105, 111, 110, 32, 102, 111, 114, 58, 32>>
\* '🔢 Total Value: '
FmtTotal ==
    <<128290, 32, 84, 111, 116, 97, 108, 32, 86, 97, 108, 117, 101, 58, 32>>
\* '📝 Characters: '
FmtCharacters ==
    <<128221, 32, 67, 104, 97, 114, 97, 99, 116, 101, 114, 115, 58, 32>>
\* '📋 Breakdown:\n'
FmtBreakdown ==
    <<128203, 32, 66, 114, 101, 97, 107, 100, 111, 119, 110, 58, 10>>
\* '  '
FmtIndent ==
    <<32, 32>>
\* ' ('
FmtOpen ==
    <<32, 40>>
\* ') = '
FmtClose ==
    <<41, 32, 61, 32>>
\* "The Gematria value of '"
ToolSimpleHead ==
    <<84, 104, 101, 32, 71, 101, 109, 97, 116, 114, 105, 97, 32, 118, 97, 108, 117, 101, 32, 111, 102, 32, 39>>
\* "' is "
ToolSimpleMid ==
    <<39, 32, 105, 115, 32>>
\* '\n'
NL ==
    <<10>>

\* str(n) as an f-string field formats an int: decimal digits, '-' if negative
RECURSIVE Str(_)
Str(n) ==
    IF n < 0 THEN <<45>> \o Str(-n)
    ELSE IF n < 10 THEN <<48 + n>>
    ELSE Str(n \div 10) \o <<48 + (n % 10)>>

(***************************************************************************)
(* GematriaCalculator.calculate_gematria                                   *)
(***************************************************************************)
\* Variant of CleanText that keeps only the first occurrence of a letter.
RECURSIVE CleanTextNoDuplicates(_, _)
CleanTextNoDuplicates(table, text) ==
    IF text = <<>> THEN <<>>
    ELSE LET front == SubSeq(text, 1, Len(text) - 1)
             last == text[Len(text)] IN
         IF last \in DOMAIN table
              /\ \A i \in 1..Len(front) : front[i] # last
         THEN CleanTextNoDuplicates(table, front) \o <<last>>
         ELSE CleanTextNoDuplicates(table, front)

\* ''.join(char for char in hebrew_text if char in self.hebrew_values)
RECURSIVE CleanText(_, _)
CleanText(table, text) ==
    IF text = <<>> THEN <<>>
    ELSE IF Head(text) \in DOMAIN table
         THEN <<Head(text)>> \o CleanText(table, Tail(text))
         ELSE CleanText(table, Tail(text))

\* Variant of GematriaLoop with total_value = value in place of +=.
RECURSIVE GematriaLoopOverwrite(_, _, _)
GematriaLoopOverwrite(table, rest, acc) ==
    IF rest = <<>> THEN acc
    ELSE LET char == Head(rest) IN
         IF char \in DOMAIN table
         THEN LET value == table[char] IN
              GematriaLoopOverwrite(table, Tail(rest),
                  [total_value |-> value,
                   breakdown   |-> Append(acc.breakdown,
                                     [character |-> char,
                                      value     |-> value,
                                      name      |-> GetHebrewLetterName(char)])])
         ELSE GematriaLoopOverwrite(table, Tail(rest), acc)

\* the for loop over cleaned_text: rest is what is left to iterate, acc the
\* locals total_value and breakdown
RECURSIVE GematriaLoop(_, _, _)
GematriaLoop(table, rest, acc) ==
    IF rest = <<>> THEN acc
    ELSE LET char == Head(rest) IN
         IF char \in DOMAIN table
         THEN LET value == table[char] IN
              GematriaLoop(table, Tail(rest),
                  [total_value |-> acc.total_value + value,
                   breakdown   |-> Append(acc.breakdown,
                                     [character |-> char,
                                      value     |-> value,
                                      name      |-> GetHebrewLetterName(char)])])
         ELSE GematriaLoop(table, Tail(rest), acc)

\* Variant of CalculateGematria with character_count = len(hebrew_text).
CalculateGematriaCountRaw(table, hebrew_text) ==
    IF hebrew_text = <<>>
    THEN [error |-> ErrNoText, value |-> 0, breakdown |-> <<>>]
    ELSE LET cleaned_text == CleanText(table, hebrew_text) IN
         IF cleaned_text = <<>>
         THEN [error |-> ErrNoHebrew, value |-> 0, breakdown |-> <<>>]
         ELSE LET loop == GematriaLoop(table, cleaned_text,
                              [total_value |-> 0, breakdown |-> <<>>]) IN
              [text            |-> hebrew_text,
               cleaned_text    |-> cleaned_text,
               value           |-> loop.total_value,
               breakdown       |-> loop.breakdown,
               character_count |-> Len(hebrew_text)]

\* Variant of CalculateGematria without the 'if not hebrew_text' return.
CalculateGematriaNoEmptyCheck(table, hebrew_text) ==
    IF FALSE
    THEN [error |-> ErrNoText, value |-> 0, breakdown |-> <<>>]
    ELSE LET cleaned_text == CleanText(table, hebrew_text) IN
         IF cleaned_text = <<>>
         THEN [error |-> ErrNoHebrew, value |-> 0, breakdown |-> <<>>]
         ELSE LET loop == GematriaLoop(table, cleaned_text,
                              [total_value |-> 0, breakdown |-> <<>>]) IN
              [text            |-> hebrew_text,
               cleaned_text    |-> cleaned_text,
               value           |-> loop.total_value,
               breakdown       |-> loop.breakdown,
               character_count |-> Len(cleaned_text)]

\* Variant of CalculateGematria without the 'if not cleaned_text' return.
CalculateGematriaNoCleanCheck(table, hebrew_text) ==
    IF hebrew_text = <<>>
    THEN [error |-> ErrNoText, value |-> 0, breakdown |-> <<>>]
    ELSE LET cleaned_text == CleanText(table, hebrew_text) IN
         IF FALSE
         THEN [error |-> ErrNoHebrew, value |-> 0, breakdown |-> <<>>]
         ELSE LET loop == GematriaLoop(table, cleaned_text,
                              [total_value |-> 0, breakdown |-> <<>>]) IN
              [text            |-> hebrew_text,
               cleaned_text    |-> cleaned_text,
               value           |-> loop.total_value,
               breakdown       |-> loop.breakdown,
               character_count |-> Len(cleaned_text)]

\* Variant of CalculateGematria that reports both failures as a result of
\* value 0 instead of an error.
CalculateGematriaErrorsAsZero(table, hebrew_text) ==
    LET cleaned_text == CleanText(table, hebrew_text)
        loop == GematriaLoop(table, cleaned_text,
                    [total_value |-> 0, breakdown |-> <<>>]) IN
    [text            |-> hebrew_text,
     cleaned_text    |-> cleaned_text,
     value           |-> loop.total_value,
     breakdown       |-> loop.breakdown,
     character_count |-> Len(cleaned_text)]

\* Variant of CalculateGematria that returns cleaned_text as 'text'.
CalculateGematriaTextCleaned(table, hebrew_text) ==
    IF hebrew_text = <<>>
    THEN [error |-> ErrNoText, value |-> 0, breakdown |-> <<>>]
    ELSE LET cleaned_text == CleanText(table, hebrew_text) IN
         IF cleaned_text = <<>>
         THEN [error |-> ErrNoHebrew, value |-> 0, breakdown |-> <<>>]
         ELSE LET loop == GematriaLoop(table, cleaned_text,
                              [total_value |-> 0, breakdown |-> <<>>]) IN
              [text            |-> cleaned_text,
               cleaned_text    |-> cleaned_text,
               value           |-> loop.total_value,
               breakdown       |-> loop.breakdown,
               character_count |-> Len(cleaned_text)]

\* def calculate_gematria(self, hebrew_text: str) -> dict
CalculateGematria(table, hebrew_text) ==
    IF hebrew_text = <<>>
    THEN [error |-> ErrNoText, value |-> 0, breakdown |-> <<>>]
    ELSE LET cleaned_text == CleanText(table, hebrew_text) IN
         IF cleaned_text = <<>>
         THEN [error |-> ErrNoHebrew, value |-> 0, breakdown |-> <<>>]
         ELSE LET loop == GematriaLoop(table, cleaned_text,
                              [total_value |-> 0, breakdown |-> <<>>]) IN
              [text            |-> hebrew_text,
               cleaned_text    |-> cleaned_text,
               value           |-> loop.total_value,
               breakdown       |-> loop.breakdown,
               character_count |-> Len(cleaned_text)]

(***************************************************************************)
(* GematriaCalculator.format_result                                        *)
(***************************************************************************)
\* Variant of BreakdownLines that puts each line before the lines written
\* so far.
RECURSIVE BreakdownLinesReversed(_)
BreakdownLinesReversed(breakdown) ==
    IF breakdown = <<>> THEN <<>>
    ELSE LET item == Head(breakdown) IN
         BreakdownLinesReversed(Tail(breakdown))
           \o FmtIndent \o <<item.character>> \o FmtOpen \o item.name
           \o FmtClose \o Str(item.value) \o NL

\* the for loop over result['breakdown']
RECURSIVE BreakdownLines(_)
BreakdownLines(breakdown) ==
    IF breakdown = <<>> THEN <<>>
    ELSE LET item == Head(breakdown) IN
         FmtIndent \o <<item.character>> \o FmtOpen \o item.name \o FmtClose
           \o Str(item.value) \o NL \o BreakdownLines(Tail(breakdown))

\* Variant of FormatResult that counts the entries of the breakdown for the
\* 'Characters' line.
FormatResultRecounts(res) ==
    IF "error" \in DOMAIN res
    THEN FmtErrorPrefix \o res.error
    ELSE FmtTitle \o res.text \o NL
           \o FmtTotal \o Str(res.value) \o NL
           \o FmtCharacters \o Str(Len(res.breakdown)) \o NL \o NL
           \o (IF res.breakdown # <<>>
               THEN FmtBreakdown \o BreakdownLines(res.breakdown)
               ELSE <<>>)

\* def format_result(self, result: dict) -> str
FormatResult(res) ==
    IF "error" \in DOMAIN res
    THEN FmtErrorPrefix \o res.error
    ELSE FmtTitle \o res.text \o NL
           \o FmtTotal \o Str(res.value) \o NL
           \o FmtCharacters \o Str(res.character_count) \o NL \o NL
           \o (IF res.breakdown # <<>>
               THEN FmtBreakdown \o BreakdownLines(res.breakdown)
               ELSE <<>>)

(***************************************************************************)
(* The @tool calculate_gematria(hebrew_text, detailed)                     *)
(***************************************************************************)
\* Variant of KeysRead for a tool that tests result['error'] in place of
\* '"error" in result': every call subscripts 'error'.
KeysReadSubscriptTest(res, is_detailed) ==
    {"error"} \cup
    (IF "error" \in DOMAIN res
     THEN {}
     ELSE IF is_detailed
          THEN {"text", "value", "character_count", "breakdown"}
          ELSE {"value"})

\* the keys that the tool subscripts on the dict returned to it:
\* result['error'] of its error return, the subscripts of format_result for
\* a detailed call and result['value'] of the simple sentence
KeysRead(res, is_detailed) ==
    IF "error" \in DOMAIN res
    THEN {"error"}
    ELSE IF is_detailed
         THEN {"text", "value", "character_count", "breakdown"}
         ELSE {"value"}

\* a subscript on a key that the dict does not hold raises KeyError
RaisesKeyError(res, is_detailed) ==
    KeysRead(res, is_detailed) \ DOMAIN res # {}

\* Variant of the tool whose simple sentence quotes cleaned_text.
CalculateGematriaToolQuotesCleaned(table, hebrew_text, is_detailed) ==
    LET res == CalculateGematria(table, hebrew_text) IN
    IF "error" \in DOMAIN res
    THEN ToolErrorPrefix \o res.error
    ELSE IF is_detailed
         THEN FormatResult(res)
         ELSE ToolSimpleHead \o res.cleaned_text \o ToolSimpleMid
                \o Str(res.value)

\* Variant of the tool that tests 'detailed' before "error" in result, so
\* that a detailed call hands an error result to format_result.
CalculateGematriaToolDetailedFirst(table, hebrew_text, is_detailed) ==
    LET res == CalculateGematria(table, hebrew_text) IN
    IF is_detailed
    THEN FormatResult(res)
    ELSE IF "error" \in DOMAIN res
         THEN ToolErrorPrefix \o res.error
         ELSE ToolSimpleHead \o hebrew_text \o ToolSimpleMid \o Str(res.value)

\* def calculate_gematria(hebrew_text: str, detailed: bool = True) -> str
CalculateGematriaTool(table, hebrew_text, is_detailed) ==
    LET res == CalculateGematria(table, hebrew_text) IN
    IF "error" \in DOMAIN res
    THEN ToolErrorPrefix \o res.error
    ELSE IF is_detailed
         THEN FormatResult(res)
         ELSE ToolSimpleHead \o hebrew_text \o ToolSimpleMid \o Str(res.value)

(***************************************************************************)
(* Inputs.                                                                 *)
(***************************************************************************)
SeqsUpTo(S, n) == UNION {[1..k -> S] : k \in 0..n}

\* the five base letters with their final forms, Shin, 'a' and ' '
InputChars == {1499, 1498, 1502, 1501, 1504, 1503, 1508, 1507, 1510, 1509,
               1513, 97, 32}

\* the words of the tool's docstring and of test_gematria, and two inputs
\* without and with unrecognised characters around a letter
WordShalom == <<1513, 1500, 1493, 1501>>
WordAhava == <<1488, 1492, 1489, 1492>>
WordChaim == <<1495, 1497, 1497, 1501>>
WordElohim == <<1488, 1500, 1493, 1492, 1497, 1501>>
WordTorah == <<1514, 1493, 1512, 1492>>
WordMashiach == <<1502, 1513, 1497, 1495>>
TextHello == <<104, 101, 108, 108, 111>>
TextMixed == <<97, 45, 1513, 33, 98>>

NamedInputs == {WordShalom, WordAhava, WordChaim, WordElohim, WordTorah,
                WordMashiach, TextHello, TextMixed}

Inputs == SeqsUpTo(InputChars, MaxLen) \cup NamedInputs

\* the inputs of the runs in which calls on several inputs follow one another
\* and a caller keeps an earlier result: Shin, Final Mem and 'a'
RepeatChars == {1513, 1501, 97}
RepeatInputs == SeqsUpTo(RepeatChars, MaxRepeatLen)

(***************************************************************************)
(* State.                                                                  *)
(***************************************************************************)
VARIABLES
    hebrew_values,  \* gematria_calculator.hebrew_values, the global table
    hebrew_text,    \* argument of the call requested or last made
    detailed,       \* 'detailed' argument of the last tool call
    result,         \* dict returned by the last calculate_gematria
    output,         \* str returned by the last format_result or tool call
    op,             \* the last operation called
    earlier,        \* an earlier call's argument and result, kept by a caller
    callers,        \* the locals of the calls that run concurrently
    env,            \* what the process finds around it when an agent is built
    agent,          \* the call of create_agent or create_shabbot_agent
    loop,           \* the interactive loop of main()
    slack           \* slack_tool, its environment and its send_message call

vars == <<hebrew_values, hebrew_text, detailed, result, output, op, earlier,
          callers, env, agent, loop, slack>>

\* the state of the calculator and of its callers, and that of the application
GematriaVars == <<hebrew_values, hebrew_text, detailed, result, output, op,
                  earlier, callers>>
AppVars == <<env, agent, loop, slack>>

NoResult == [none |-> TRUE]
NoOutput == <<>>
NoEarlier == [none |-> TRUE]

\* the callers of the concurrent runs and the locals of one call:
\* calculate_gematria's hebrew_text, cleaned_text, the rest of its for loop,
\* total_value, breakdown and the dict it returns; format_result's rest of
\* its for loop and output
Callers == 1..NumCallers
IdleCaller ==
    [pc           |-> "idle",
     text         |-> <<>>,
     cleaned_text |-> <<>>,
     rest         |-> <<>>,
     total_value  |-> 0,
     breakdown    |-> <<>>,
     ret          |-> NoResult,
     items        |-> <<>>,
     output       |-> NoOutput]
NoCallers == [c \in Callers |-> IdleCaller]

\* OPENAI_API_KEY in os.environ: absent, or present with a value
KeyUnset == [set |-> FALSE, value |-> ""]
KeyEmpty == [set |-> TRUE, value |-> ""]
KeyGiven == [set |-> TRUE, value |-> "sk-test"]

\* the application before main() or a factory of agents is called
NoEnv == [key |-> KeyUnset, mcp |-> [kind |-> "tools", n |-> 0], llm |-> "ok"]
NoAgent ==
    [fn             |-> "none",
     pc             |-> "idle",
     tools          |-> <<>>,
     returned       |-> "nothing",
     max_iterations |-> 0]
NoLoop ==
    [pc         |-> "not_started",
     raw        |-> <<>>,
     user_input |-> <<>>,
     raised     |-> "nothing",
     printed    |-> "nothing",
     invoked    |-> 0]

\* a value of os.environ.get(...) or of an optional argument: None, or a str
None == [given |-> FALSE, value |-> <<>>]
Given(s) == [given |-> TRUE, value |-> s]
\* the truth value of such a value: None and '' are false
Truthy(v) == v.given /\ v.value # <<>>

\* slack_tool before the module is imported
NoSlack ==
    [pc              |-> "not_imported",
     environ_token   |-> None,
     environ_channel |-> None,
     web_client      |-> "ok",
     bot_token       |-> None,
     channel_id      |-> None,
     client          |-> FALSE,
     message         |-> <<>>,
     channel         |-> None,
     target_channel  |-> None,
     api             |-> "nothing",
     calls           |-> <<>>,
     sends           |-> 0,
     returned        |-> [kind |-> "nothing", text |-> <<>>]]

AppIdle ==
    env = NoEnv /\ agent = NoAgent /\ loop = NoLoop /\ slack = NoSlack

\* The global calculator is constructed at import; hebrew_text is the
\* argument of the call a caller is about to make.
Init ==
    /\ hebrew_values = InitialTable
    /\ hebrew_text \in Inputs
    /\ detailed = TRUE
    /\ result = NoResult
    /\ output = NoOutput
    /\ op = "init"
    /\ earlier = NoEarlier
    /\ callers = NoCallers
    /\ AppIdle

InitRepeat ==
    /\ Init
    /\ hebrew_text \in RepeatInputs

\* Variant of CalculateCallOn in which total_value is kept on the calculator
\* and not reset: the value of a call is added to that of the call before.
CalculateCallAccumulatingOn(S) ==
    \E t \in S :
        /\ hebrew_text' = t
        /\ result' =
             LET r == CalculateGematria(hebrew_values, t) IN
             IF "value" \in DOMAIN result /\ "error" \notin DOMAIN r
             THEN [r EXCEPT !.value = r.value + result.value]
             ELSE r
        /\ output' = NoOutput
        /\ op' = "calculate"
        /\ UNCHANGED <<hebrew_values, detailed, earlier, callers>>
        /\ UNCHANGED AppVars

\* result = gematria_calculator.calculate_gematria(t), for a t of S
CalculateCallOn(S) ==
    \E t \in S :
        /\ hebrew_text' = t
        /\ result' = CalculateGematria(hebrew_values, t)
        /\ output' = NoOutput
        /\ op' = "calculate"
        /\ UNCHANGED <<hebrew_values, detailed, earlier, callers>>
        /\ UNCHANGED AppVars

\* gematria_calculator.format_result(result), on the dict the caller holds
FormatCall ==
    /\ result # NoResult
    /\ output' = FormatResult(result)
    /\ op' = "format"
    /\ UNCHANGED <<hebrew_values, hebrew_text, detailed, result, earlier,
                   callers>>
    /\ UNCHANGED AppVars

\* Variant of ToolCallOn in which the calculator enters every character it
\* does not know into hebrew_values with weight 0.
ToolCallCachingOn(S) ==
    \E t \in S, d \in BOOLEAN :
        /\ hebrew_text' = t
        /\ detailed' = d
        /\ result' = CalculateGematria(hebrew_values, t)
        /\ IF RaisesKeyError(CalculateGematria(hebrew_values, t), d)
           THEN output' = NoOutput /\ op' = "raised"
           ELSE /\ output' = CalculateGematriaTool(hebrew_values, t, d)
                /\ op' = "tool"
        /\ hebrew_values' =
             [c \in DOMAIN hebrew_values \cup {t[i] : i \in 1..Len(t)} |->
                IF c \in DOMAIN hebrew_values THEN hebrew_values[c] ELSE 0]
        /\ UNCHANGED <<earlier, callers>>
        /\ UNCHANGED AppVars

\* the tool calculate_gematria(t, d), for a t of S; result is the tool's
\* local; a call in which a subscript raises returns nothing
ToolCallOn(S) ==
    \E t \in S, d \in BOOLEAN :
        /\ hebrew_text' = t
        /\ detailed' = d
        /\ result' = CalculateGematria(hebrew_values, t)
        /\ IF RaisesKeyError(CalculateGematria(hebrew_values, t), d)
           THEN output' = NoOutput /\ op' = "raised"
           ELSE /\ output' = CalculateGematriaTool(hebrew_values, t, d)
                /\ op' = "tool"
        /\ UNCHANGED <<hebrew_values, earlier, callers>>
        /\ UNCHANGED AppVars

\* the caller keeps the argument and the dict of the call just made
Remember ==
    /\ op \in {"calculate", "tool"}
    /\ earlier' = [text |-> hebrew_text, result |-> result]
    /\ UNCHANGED <<hebrew_values, hebrew_text, detailed, result, output, op,
                   callers>>
    /\ UNCHANGED AppVars

(***************************************************************************)
(* Spec: the calls on one input, any input of Inputs.                      *)
(***************************************************************************)
CalculateCall == CalculateCallOn({hebrew_text})
ToolCall == ToolCallOn({hebrew_text})

Next == CalculateCall \/ FormatCall \/ ToolCall

Spec == Init /\ [][Next]_vars

(***************************************************************************)
(* SpecRepeat: any sequence of calls on the inputs of RepeatInputs, with a *)
(* caller that keeps an earlier result.                                    *)
(***************************************************************************)
RepeatCalculateCall == CalculateCallOn(RepeatInputs)
RepeatToolCall == ToolCallOn(RepeatInputs)

NextRepeat == RepeatCalculateCall \/ FormatCall \/ RepeatToolCall \/ Remember

SpecRepeat == InitRepeat /\ [][NextRepeat]_vars

(***************************************************************************)
(* SpecFormat: format_result on dicts a caller hands in, among them dicts  *)
(* whose 'value' and 'character_count' are not those of their breakdown.   *)
(***************************************************************************)
GivenResults ==
    {LET r == CalculateGematria(InitialTable, t) IN
     IF "error" \in DOMAIN r THEN r
     ELSE [r EXCEPT !.value = @ + dv, !.character_count = @ + dc] :
        t \in RepeatInputs, dv \in 0..MaxSkew, dc \in 0..MaxSkew}

InitFormat ==
    /\ hebrew_values = InitialTable
    /\ result \in GivenResults
    /\ hebrew_text = (IF "text" \in DOMAIN result THEN result.text ELSE <<>>)
    /\ detailed = TRUE
    /\ output = NoOutput
    /\ op = "given"
    /\ earlier = NoEarlier
    /\ callers = NoCallers
    /\ AppIdle

NextFormat == FormatCall

SpecFormat == InitFormat /\ [][NextFormat]_vars

(***************************************************************************)
(* SpecConc: NumCallers calls of calculate_gematria and format_result on   *)
(* the global calculator, interleaved statement by statement.  Every step  *)
(* reads hebrew_values, the one shared object, and the locals of its call. *)
(***************************************************************************)
\* the empty input, an input without a letter, one letter, and two letters
\* around a dropped character
ConcInputs == {<<>>, <<97>>, <<1513>>, <<1513, 97, 1501>>}

InitConc ==
    /\ hebrew_values = InitialTable
    /\ hebrew_text = <<>>
    /\ detailed = TRUE
    /\ result = NoResult
    /\ output = NoOutput
    /\ op = "init"
    /\ earlier = NoEarlier
    /\ callers \in [Callers ->
                      {[IdleCaller EXCEPT !.pc = "called", !.text = t] :
                          t \in ConcInputs}]
    /\ AppIdle

\* if not hebrew_text: return {"error": "No text provided", ...}
CheckEmpty(c) ==
    /\ callers[c].pc = "called"
    /\ callers' = [callers EXCEPT ![c] =
          IF @.text = <<>>
          THEN [@ EXCEPT !.pc = "returned",
                         !.ret = [error |-> ErrNoText, value |-> 0,
                                  breakdown |-> <<>>]]
          ELSE [@ EXCEPT !.pc = "filter"]]
    /\ UNCHANGED <<hebrew_values, hebrew_text, detailed, result, output, op,
                   earlier>>
    /\ UNCHANGED AppVars

\* cleaned_text = ''.join(...); if not cleaned_text: return {...};
\* total_value = 0; breakdown = []
Filter(c) ==
    /\ callers[c].pc = "filter"
    /\ callers' = [callers EXCEPT ![c] =
          LET cleaned_text == CleanText(hebrew_values, @.text) IN
          IF cleaned_text = <<>>
          THEN [@ EXCEPT !.pc = "returned",
                         !.ret = [error |-> ErrNoHebrew, value |-> 0,
                                  breakdown |-> <<>>]]
          ELSE [@ EXCEPT !.pc = "loop",
                         !.cleaned_text = cleaned_text,
                         !.rest = cleaned_text,
                         !.total_value = 0,
                         !.breakdown = <<>>]]
    /\ UNCHANGED <<hebrew_values, hebrew_text, detailed, result, output, op,
                   earlier>>
    /\ UNCHANGED AppVars

\* Variant of LoopStep in which total_value is an attribute of the shared
\* calculator: every call in its loop sees the total that c has written.
LoopStepSharedTotal(c) ==
    /\ callers[c].pc = "loop"
    /\ callers[c].rest # <<>>
    /\ LET acc == GematriaLoop(hebrew_values, <<Head(callers[c].rest)>>,
                       [total_value |-> callers[c].total_value,
                        breakdown   |-> callers[c].breakdown]) IN
       callers' = [d \in Callers |->
          IF d = c
          THEN [callers[d] EXCEPT !.rest = Tail(@),
                                  !.total_value = acc.total_value,
                                  !.breakdown = acc.breakdown]
          ELSE IF callers[d].pc = "loop"
               THEN [callers[d] EXCEPT !.total_value = acc.total_value]
               ELSE callers[d]]
    /\ UNCHANGED <<hebrew_values, hebrew_text, detailed, result, output, op,
                   earlier>>
    /\ UNCHANGED AppVars

\* one iteration of 'for char in cleaned_text'
LoopStep(c) ==
    /\ callers[c].pc = "loop"
    /\ callers[c].rest # <<>>
    /\ LET acc == GematriaLoop(hebrew_values, <<Head(callers[c].rest)>>,
                       [total_value |-> callers[c].total_value,
                        breakdown   |-> callers[c].breakdown]) IN
       callers' = [callers EXCEPT ![c] =
          [@ EXCEPT !.rest = Tail(@),
                    !.total_value = acc.total_value,
                    !.breakdown = acc.breakdown]]
    /\ UNCHANGED <<hebrew_values, hebrew_text, detailed, result, output, op,
                   earlier>>
    /\ UNCHANGED AppVars

\* the return of the dict after the loop
Return(c) ==
    /\ callers[c].pc = "loop"
    /\ callers[c].rest = <<>>
    /\ LET me == callers[c] IN
       callers' = [callers EXCEPT ![c] =
          [me EXCEPT !.pc = "returned",
                     !.ret = [text            |-> me.text,
                              cleaned_text    |-> me.cleaned_text,
                              value           |-> me.total_value,
                              breakdown       |-> me.breakdown,
                              character_count |-> Len(me.cleaned_text)]]]
    /\ UNCHANGED <<hebrew_values, hebrew_text, detailed, result, output, op,
                   earlier>>
    /\ UNCHANGED AppVars

\* format_result on the dict returned to the caller, up to its for loop
FormatEnter(c) ==
    /\ callers[c].pc = "returned"
    /\ LET me == callers[c]
           res == callers[c].ret IN
       callers' = [callers EXCEPT ![c] =
          IF "error" \in DOMAIN res
          THEN [me EXCEPT !.pc = "formatted",
                          !.output = FmtErrorPrefix \o res.error]
          ELSE [me EXCEPT !.pc = "format_loop",
                          !.items = res.breakdown,
                          !.output =
                             FmtTitle \o res.text \o NL
                               \o FmtTotal \o Str(res.value) \o NL
                               \o FmtCharacters \o Str(res.character_count)
                               \o NL \o NL
                               \o (IF res.breakdown # <<>>
                                   THEN FmtBreakdown ELSE <<>>)]]
    /\ UNCHANGED <<hebrew_values, hebrew_text, detailed, result, output, op,
                   earlier>>
    /\ UNCHANGED AppVars

\* one iteration of "for item in result['breakdown']"
FormatStep(c) ==
    /\ callers[c].pc = "format_loop"
    /\ callers[c].items # <<>>
    /\ callers' = [callers EXCEPT ![c] =
          [@ EXCEPT !.items = Tail(@),
                    !.output = @ \o BreakdownLines(<<Head(callers[c].items)>>)]]
    /\ UNCHANGED <<hebrew_values, hebrew_text, detailed, result, output, op,
                   earlier>>
    /\ UNCHANGED AppVars

\* return output
FormatReturn(c) ==
    /\ callers[c].pc = "format_loop"
    /\ callers[c].items = <<>>
    /\ callers' = [callers EXCEPT ![c] = [@ EXCEPT !.pc = "formatted"]]
    /\ UNCHANGED <<hebrew_values, hebrew_text, detailed, result, output, op,
                   earlier>>
    /\ UNCHANGED AppVars

ConcCheckEmpty == \E c \in Callers : CheckEmpty(c)
ConcFilter == \E c \in Callers : Filter(c)
ConcLoopStep == \E c \in Callers : LoopStep(c)
ConcReturn == \E c \in Callers : Return(c)
ConcFormatEnter == \E c \in Callers : FormatEnter(c)
ConcFormatStep == \E c \in Callers : FormatStep(c)
ConcFormatReturn == \E c \in Callers : FormatReturn(c)

NextConc ==
    \/ ConcCheckEmpty
    \/ ConcFilter
    \/ ConcLoopStep
    \/ ConcReturn
    \/ ConcFormatEnter
    \/ ConcFormatStep
    \/ ConcFormatReturn

SpecConc == InitConc /\ [][NextConc]_vars

(***************************************************************************)
(* SpecAgent: create_agent of main.py and create_shabbot_agent, statement  *)
(* by statement, in every environment of Envs.                             *)
(***************************************************************************)
\* a tool of this repository, and the i-th tool returned by client.get_tools()
Tool(name) == [origin |-> "local", name |-> name, index |-> 0]
McpTool(i) == [origin |-> "hebcal", name |-> "mcp", index |-> i]

\* tools = [...] of create_agent
MainTools ==
    <<Tool("search_bible"), Tool("generate_qr_code"), Tool("search_web"),
      Tool("send_slack_message"), Tool("calculate_gematria"),
      Tool("get_today_date")>>

\* shabbot_tools = [...] of create_shabbot_agent
ShabbotTools ==
    <<Tool("get_today_date"), Tool("calculate_gematria"),
      Tool("search_bible")>>

\* max_iterations of the two executors
MainMaxIterations == 10
ShabbotMaxIterations == 8

\* what the hosted MCP server does: it hands out n tools, the construction
\* of MultiServerMCPClient raises, get_tools() raises, or the event loop of
\* the synchronous wrapper cannot be made
McpOutcomes ==
    {[kind |-> "tools", n |-> k] : k \in 0..MaxMcpTools}
      \cup {[kind |-> k, n |-> 0] :
               k \in {"client_raises", "get_tools_raises", "loop_raises"}}

Envs ==
    [key : {KeyUnset, KeyEmpty, KeyGiven},
     mcp : McpOutcomes,
     llm : {"ok", "raises"}]

\* the truth value of os.environ.get("OPENAI_API_KEY"): None and '' are false
OpenAIKeyGiven(e) == e.key.set /\ e.key.value # ""

\* async def get_jewish_calendar_tools(): the tools, [] on an Exception
GetJewishCalendarTools(mcp) ==
    IF mcp.kind \in {"client_raises", "get_tools_raises"}
    THEN <<>>
    ELSE [i \in 1..mcp.n |-> McpTool(i)]

\* def get_jewish_calendar_tools_sync(): what the coroutine returned, [] on
\* an Exception; no Exception leaves it
GetJewishCalendarToolsSync(mcp) ==
    IF mcp.kind = "loop_raises"
    THEN [raised |-> FALSE, tools |-> <<>>]
    ELSE [raised |-> FALSE, tools |-> GetJewishCalendarTools(mcp)]

GematriaIdle ==
    /\ hebrew_values = InitialTable
    /\ hebrew_text = <<>>
    /\ detailed = TRUE
    /\ result = NoResult
    /\ output = NoOutput
    /\ op = "init"
    /\ earlier = NoEarlier
    /\ callers = NoCallers

InitAgent ==
    /\ GematriaIdle
    /\ env \in Envs
    /\ agent = NoAgent
    /\ loop = NoLoop
    /\ slack = NoSlack

\* create_agent(): the prompt and tools = [...]
CreateAgentEnter ==
    /\ agent.pc = "idle"
    /\ agent' = [agent EXCEPT !.fn = "create_agent",
                              !.tools = MainTools,
                              !.pc = "load_tools"]
    /\ UNCHANGED <<env, loop, slack>>
    /\ UNCHANGED GematriaVars

\* create_shabbot_agent(): the test of OPENAI_API_KEY, the prompt and
\* shabbot_tools = [...]
CreateShabbotAgentEnter ==
    /\ agent.pc = "idle"
    /\ agent' = IF ~OpenAIKeyGiven(env)
                THEN [agent EXCEPT !.fn = "create_shabbot_agent",
                                   !.returned = "None",
                                   !.pc = "done"]
                ELSE [agent EXCEPT !.fn = "create_shabbot_agent",
                                   !.tools = ShabbotTools,
                                   !.pc = "load_tools"]
    /\ UNCHANGED <<env, loop, slack>>
    /\ UNCHANGED GematriaVars

\* Variant of LoadCalendarTools with 'tools = jc_tools' in place of
\* tools.extend(jc_tools), whatever the loader returned.
LoadCalendarToolsReplacing ==
    /\ agent.pc = "load_tools"
    /\ LET jc_tools == GetJewishCalendarToolsSync(env.mcp) IN
       agent' = [agent EXCEPT !.tools = IF jc_tools.raised
                                        THEN @
                                        ELSE jc_tools.tools,
                              !.pc = "llm"]
    /\ UNCHANGED <<env, loop, slack>>
    /\ UNCHANGED GematriaVars

\* try: jc_tools = get_jewish_calendar_tools_sync(); if jc_tools:
\* tools.extend(jc_tools); except Exception: a message only
LoadCalendarTools ==
    /\ agent.pc = "load_tools"
    /\ LET jc_tools == GetJewishCalendarToolsSync(env.mcp) IN
       agent' = [agent EXCEPT !.tools = IF jc_tools.raised
                                        THEN @
                                        ELSE IF jc_tools.tools # <<>>
                                             THEN @ \o jc_tools.tools
                                             ELSE @,
                              !.pc = "llm"]
    /\ UNCHANGED <<env, loop, slack>>
    /\ UNCHANGED GematriaVars

\* create_agent: try: if os.environ.get("OPENAI_API_KEY"): llm =
\* ChatOpenAI(...) else: return None; except Exception: return None
CreateAgentLLM ==
    /\ agent.pc = "llm"
    /\ agent.fn = "create_agent"
    /\ agent' = IF OpenAIKeyGiven(env) /\ env.llm = "ok"
                THEN [agent EXCEPT !.pc = "executor"]
                ELSE [agent EXCEPT !.returned = "None", !.pc = "done"]
    /\ UNCHANGED <<env, loop, slack>>
    /\ UNCHANGED GematriaVars

\* create_shabbot_agent: llm = ChatOpenAI(...), outside of any try
CreateShabbotAgentLLM ==
    /\ agent.pc = "llm"
    /\ agent.fn = "create_shabbot_agent"
    /\ agent' = IF env.llm = "ok"
                THEN [agent EXCEPT !.pc = "executor"]
                ELSE [agent EXCEPT !.returned = "raised", !.pc = "done"]
    /\ UNCHANGED <<env, loop, slack>>
    /\ UNCHANGED GematriaVars

\* create_tool_calling_agent(...), AgentExecutor(...), return executor
BuildExecutor ==
    /\ agent.pc = "executor"
    /\ agent' = [agent EXCEPT !.returned = "executor",
                              !.max_iterations =
                                 IF agent.fn = "create_agent"
                                 THEN MainMaxIterations
                                 ELSE ShabbotMaxIterations,
                              !.pc = "done"]
    /\ UNCHANGED <<env, loop, slack>>
    /\ UNCHANGED GematriaVars

NextAgent ==
    \/ CreateAgentEnter
    \/ CreateShabbotAgentEnter
    \/ LoadCalendarTools
    \/ CreateAgentLLM
    \/ CreateShabbotAgentLLM
    \/ BuildExecutor

SpecAgent == InitAgent /\ [][NextAgent]_vars

(***************************************************************************)
(* SpecMain: main() of main.py: create_agent, then the interactive loop    *)
(* on the lines of RawInputs, with an agent that answers, raises or is     *)
(* interrupted.                                                            *)
(***************************************************************************)
\* the characters that str.strip() removes
WhitespaceChars ==
    (9..13) \cup (28..32) \cup {133, 160, 5760} \cup (8192..8202)
      \cup {8232, 8233, 8239, 8287, 12288}

\* str.strip()
RECURSIVE LStrip(_)
LStrip(s) ==
    IF s # <<>> /\ Head(s) \in WhitespaceChars THEN LStrip(Tail(s)) ELSE s
RECURSIVE RStrip(_)
RStrip(s) ==
    IF s # <<>> /\ s[Len(s)] \in WhitespaceChars
    THEN RStrip(SubSeq(s, 1, Len(s) - 1))
    ELSE s
Strip(s) == RStrip(LStrip(s))

\* str.lower() on the characters of RawInputs: A..Z become a..z
Lower(s) ==
    [i \in 1..Len(s) |-> IF s[i] \in 65..90 THEN s[i] + 32 ELSE s[i]]

\* ['quit', 'exit', 'q']
QuitWords == {<<113, 117, 105, 116>>, <<101, 120, 105, 116>>, <<113>>}

\* the lines that input() returns: 'quit', 'QUIT', ' Exit\t', 'q', NBSP 'Q',
\* '', '  ', 'hi', 'quit it', 'Quiet' and a Hebrew word
RawInputs ==
    {<<113, 117, 105, 116>>, <<81, 85, 73, 84>>,
     <<32, 69, 120, 105, 116, 9>>, <<113>>, <<160, 81>>,
     <<>>, <<32, 32>>, <<104, 105>>,
     <<113, 117, 105, 116, 32, 105, 116>>, <<81, 117, 105, 101, 116>>,
     WordShalom}

InitMain == InitAgent

\* agent_executor = create_agent(); if agent_executor is None: return
MainStart ==
    /\ loop.pc = "not_started"
    /\ agent.pc = "done"
    /\ agent.fn = "create_agent"
    /\ loop' = [loop EXCEPT !.pc = IF agent.returned = "None"
                                   THEN "returned"
                                   ELSE "prompt"]
    /\ UNCHANGED <<env, agent, slack>>
    /\ UNCHANGED GematriaVars

\* user_input = input(...).strip(); the test of the quit words; the test of
\* the empty input
ReadLine ==
    /\ loop.pc = "prompt"
    /\ loop.invoked < MaxQueries
    /\ \E line \in RawInputs :
          LET user_input == Strip(line) IN
          loop' = [loop EXCEPT
                     !.raw = line,
                     !.user_input = user_input,
                     !.raised = "nothing",
                     !.printed = IF Lower(user_input) \in QuitWords
                                 THEN "goodbye"
                                 ELSE IF user_input = <<>>
                                      THEN "nothing"
                                      ELSE "processing",
                     !.pc = IF Lower(user_input) \in QuitWords
                            THEN "ended"
                            ELSE IF user_input = <<>>
                                 THEN "prompt"
                                 ELSE "invoke"]
    /\ UNCHANGED <<env, agent, slack>>
    /\ UNCHANGED GematriaVars

\* KeyboardInterrupt while input() waits: except KeyboardInterrupt: break
ReadInterrupted ==
    /\ loop.pc = "prompt"
    /\ loop' = [loop EXCEPT !.raised = "KeyboardInterrupt",
                            !.printed = "goodbye",
                            !.pc = "ended"]
    /\ UNCHANGED <<env, agent, slack>>
    /\ UNCHANGED GematriaVars

\* input() raises EOFError, an Exception: except Exception: the message
ReadFails ==
    /\ loop.pc = "prompt"
    /\ loop' = [loop EXCEPT !.raised = "EOFError",
                            !.printed = "error"]
    /\ UNCHANGED <<env, agent, slack>>
    /\ UNCHANGED GematriaVars

\* result = asyncio.run(agent_executor.ainvoke(...)); print(result["output"])
AgentAnswers ==
    /\ loop.pc = "invoke"
    /\ loop' = [loop EXCEPT !.invoked = @ + 1,
                            !.printed = "response",
                            !.pc = "prompt"]
    /\ UNCHANGED <<env, agent, slack>>
    /\ UNCHANGED GematriaVars

\* Variant of AgentRaises with a break in 'except Exception'.
AgentRaisesEndsLoop ==
    /\ loop.pc = "invoke"
    /\ loop' = [loop EXCEPT !.invoked = @ + 1,
                            !.raised = "Exception",
                            !.printed = "error",
                            !.pc = "ended"]
    /\ UNCHANGED <<env, agent, slack>>
    /\ UNCHANGED GematriaVars

\* the invocation raises an Exception: except Exception: the message, and
\* the while loop goes on
AgentRaises ==
    /\ loop.pc = "invoke"
    /\ loop' = [loop EXCEPT !.invoked = @ + 1,
                            !.raised = "Exception",
                            !.printed = "error",
                            !.pc = "prompt"]
    /\ UNCHANGED <<env, agent, slack>>
    /\ UNCHANGED GematriaVars

\* KeyboardInterrupt during the invocation: except KeyboardInterrupt: break
AgentInterrupted ==
    /\ loop.pc = "invoke"
    /\ loop' = [loop EXCEPT !.invoked = @ + 1,
                            !.raised = "KeyboardInterrupt",
                            !.printed = "goodbye",
                            !.pc = "ended"]
    /\ UNCHANGED <<env, agent, slack>>
    /\ UNCHANGED GematriaVars

NextMain ==
    \/ CreateAgentEnter
    \/ LoadCalendarTools
    \/ CreateAgentLLM
    \/ BuildExecutor
    \/ MainStart
    \/ ReadLine
    \/ ReadInterrupted
    \/ ReadFails
    \/ AgentAnswers
    \/ AgentRaises
    \/ AgentInterrupted

SpecMain == InitMain /\ [][NextMain]_vars

(***************************************************************************)
(* SpecSlack: the construction of slack_tool and its send_message, called  *)
(* by the tool send_slack_message, with a Slack API that returns, raises   *)
(* SlackApiError or raises another Exception.                              *)
(***************************************************************************)
\* 'Slack not available. Please set SLACK_BOT_TOKEN environment variable.'
SlackNotAvailable ==
    <<83, 108, 97, 99, 107, 32, 110, 111, 116, 32, 97, 118, 97, 105, 108, 97, 98, 108, 101, 46, 32, 80, 108, 101, 97, 115, 101, 32, 115, 101, 116, 32, 83, 76, 65, 67, 75, 95, 66, 79, 84, 95, 84, 79, 75, 69, 78, 32, 101, 110, 118, 105, 114, 111, 110, 109, 101, 110, 116, 32, 118, 97, 114, 105, 97, 98, 108, 101, 46>>
\* 'No channel specified. Please set SLACK_CHANNEL_ID or provide a channel
\* parameter.'
SlackNoChannel ==
    <<78, 111, 32, 99, 104, 97, 110, 110, 101, 108, 32, 115, 112, 101, 99, 105, 102, 105, 101, 100, 46, 32, 80, 108, 101, 97, 115, 101, 32, 115, 101, 116, 32, 83, 76, 65, 67, 75, 95, 67, 72, 65, 78, 78, 69, 76, 95, 73, 68, 32, 111, 114, 32, 112, 114, 111, 118, 105, 100, 101, 32, 97, 32, 99, 104, 97, 110, 110, 101, 108, 32, 112, 97, 114, 97, 109, 101, 116, 101, 114, 46>>
\* 'Message sent successfully to channel '
SlackSentHead ==
    <<77, 101, 115, 115, 97, 103, 101, 32, 115, 101, 110, 116, 32, 115, 117, 99, 99, 101, 115, 115, 102, 117, 108, 108, 121, 32, 116, 111, 32, 99, 104, 97, 110, 110, 101, 108, 32>>
\* ': '
SlackSentMid ==
    <<58, 32>>
\* 'Error: Bot is not in the channel. Please invite the bot to channel '
SlackNotInChannel ==
    <<69, 114, 114, 111, 114, 58, 32, 66, 111, 116, 32, 105, 115, 32, 110, 111, 116, 32, 105, 110, 32, 116, 104, 101, 32, 99, 104, 97, 110, 110, 101, 108, 46, 32, 80, 108, 101, 97, 115, 101, 32, 105, 110, 118, 105, 116, 101, 32, 116, 104, 101, 32, 98, 111, 116, 32, 116, 111, 32, 99, 104, 97, 110, 110, 101, 108, 32>>
\* "Error: Bot token missing required scopes. Need 'chat:write' and
\* 'files:write' permissions"
SlackMissingScope ==
    <<69, 114, 114, 111, 114, 58, 32, 66, 111, 116, 32, 116, 111, 107, 101, 110, 32, 109, 105, 115, 115, 105, 110, 103, 32, 114, 101, 113, 117, 105, 114, 101, 100, 32, 115, 99, 111, 112, 101, 115, 46, 32, 78, 101, 101, 100, 32, 39, 99, 104, 97, 116, 58, 119, 114, 105, 116, 101, 39, 32, 97, 110, 100, 32, 39, 102, 105, 108, 101, 115, 58, 119, 114, 105, 116, 101, 39, 32, 112, 101, 114, 109, 105, 115, 115, 105, 111, 110, 115>>
\* 'Error sending message to Slack: '
SlackErrorHead ==
    <<69, 114, 114, 111, 114, 32, 115, 101, 110, 100, 105, 110, 103, 32, 109, 101, 115, 115, 97, 103, 101, 32, 116, 111, 32, 83, 108, 97, 99, 107, 58, 32>>

\* 'not_in_channel', 'missing_scope' and 'channel_not_found'
ErrNotInChannel ==
    <<110, 111, 116, 95, 105, 110, 95, 99, 104, 97, 110, 110, 101, 108>>
ErrMissingScope ==
    <<109, 105, 115, 115, 105, 110, 103, 95, 115, 99, 111, 112, 101>>
ErrChannelNotFound ==
    <<99, 104, 97, 110, 110, 101, 108, 95, 110, 111, 116, 95, 102, 111, 117, 110, 100>>
\* str(e) of an Exception that is no SlackApiError: 'timed out'
ErrTimedOut ==
    <<116, 105, 109, 101, 100, 32, 111, 117, 116>>

\* e.response of a SlackApiError: the dict of an answer of the API with its
\* 'error', or the dict of an answer whose body was no JSON, without 'error'
ErrorResponses ==
    {[error |-> c] :
        c \in {ErrNotInChannel, ErrMissingScope, ErrChannelNotFound}}
      \cup {[status |-> 502]}

\* the arguments of send_message: 'hi' or a Hebrew word; no channel, '', 'C1'
\* or 'C2'
SlackMessages == {<<104, 105>>, WordShalom}
ChannelArguments == {None, Given(<<>>), Given(<<67, 49>>), Given(<<67, 50>>)}

\* SLACK_BOT_TOKEN and SLACK_CHANNEL_ID: absent, '' or a value ('xoxb', 'C0')
TokenValues == {None, Given(<<>>), Given(<<120, 111, 120, 98>>)}
DefaultChannels == {None, Given(<<>>), Given(<<67, 48>>)}

InitSlack ==
    /\ GematriaIdle
    /\ env = NoEnv
    /\ agent = NoAgent
    /\ loop = NoLoop
    /\ slack \in {[NoSlack EXCEPT !.environ_token = t,
                                  !.environ_channel = c,
                                  !.web_client = w] :
                     t \in TokenValues, c \in DefaultChannels,
                     w \in {"ok", "raises"}}

\* slack_tool = SlackTool(): __init__ and _setup_slack
ImportSlackTool ==
    /\ slack.pc = "not_imported"
    /\ slack' = [slack EXCEPT
                    !.bot_token = slack.environ_token,
                    !.channel_id = slack.environ_channel,
                    !.client = Truthy(slack.environ_token)
                                 /\ slack.web_client = "ok",
                    !.pc = "ready"]
    /\ UNCHANGED <<env, agent, loop>>
    /\ UNCHANGED GematriaVars

\* send_slack_message(message, channel) and send_message up to the call of
\* the API: the test of self.client, target_channel = channel or
\* self.channel_id, the test of target_channel
SendMessageEnter ==
    /\ slack.pc = "ready"
    /\ slack.sends < MaxSends
    /\ \E message \in SlackMessages, channel \in ChannelArguments :
          LET target_channel == IF Truthy(channel)
                                THEN channel
                                ELSE slack.channel_id
              entered == [slack EXCEPT !.message = message,
                                       !.channel = channel,
                                       !.api = "nothing",
                                       !.sends = @ + 1] IN
          slack' =
            IF ~slack.client
            THEN [entered EXCEPT
                    !.returned = [kind |-> "str", text |-> SlackNotAvailable]]
            ELSE IF ~Truthy(target_channel)
                 THEN [entered EXCEPT
                         !.target_channel = target_channel,
                         !.returned =
                            [kind |-> "str", text |-> SlackNoChannel]]
                 ELSE [entered EXCEPT
                         !.target_channel = target_channel,
                         !.returned = [kind |-> "nothing", text |-> <<>>],
                         !.pc = "post"]
    /\ UNCHANGED <<env, agent, loop>>
    /\ UNCHANGED GematriaVars

\* the call self.client.chat_postMessage(channel=target_channel,
\* text=message) that the three outcomes have in common
PostCalled ==
    Append(slack.calls,
           [channel |-> slack.target_channel.value, text |-> slack.message])

\* chat_postMessage returns: the success message
PostReturns ==
    /\ slack.pc = "post"
    /\ slack' = [slack EXCEPT
                    !.calls = PostCalled,
                    !.api = "returned",
                    !.returned =
                       [kind |-> "str",
                        text |-> SlackSentHead \o slack.target_channel.value
                                   \o SlackSentMid \o slack.message],
                    !.pc = "ready"]
    /\ UNCHANGED <<env, agent, loop>>
    /\ UNCHANGED GematriaVars

\* what 'except SlackApiError as e' does with e.response: the subscript
\* e.response['error'] raises KeyError, out of send_message, if the dict
\* has no 'error'; else one of the three messages
HandleSlackApiError(response, target_channel) ==
    IF "error" \notin DOMAIN response
    THEN [kind |-> "raised", text |-> <<>>]
    ELSE LET error_msg == response.error IN
         IF error_msg = ErrNotInChannel
         THEN [kind |-> "str", text |-> SlackNotInChannel \o target_channel]
         ELSE IF error_msg = ErrMissingScope
              THEN [kind |-> "str", text |-> SlackMissingScope]
              ELSE [kind |-> "str", text |-> SlackErrorHead \o error_msg]

\* chat_postMessage raises SlackApiError
PostRaisesSlackApiError ==
    /\ slack.pc = "post"
    /\ \E response \in ErrorResponses :
          slack' = [slack EXCEPT
                      !.calls = PostCalled,
                      !.api = "SlackApiError",
                      !.returned =
                         HandleSlackApiError(response,
                                             slack.target_channel.value),
                      !.pc = "ready"]
    /\ UNCHANGED <<env, agent, loop>>
    /\ UNCHANGED GematriaVars

\* chat_postMessage raises another Exception: except Exception as e
PostRaisesException ==
    /\ slack.pc = "post"
    /\ slack' = [slack EXCEPT
                    !.calls = PostCalled,
                    !.api = "Exception",
                    !.returned =
                       [kind |-> "str", text |-> SlackErrorHead \o ErrTimedOut],
                    !.pc = "ready"]
    /\ UNCHANGED <<env, agent, loop>>
    /\ UNCHANGED GematriaVars

NextSlack ==
    \/ ImportSlackTool
    \/ SendMessageEnter
    \/ PostReturns
    \/ PostRaisesSlackApiError
    \/ PostRaisesException

SpecSlack == InitSlack /\ [][NextSlack]_vars

(***************************************************************************)
(* Properties.                                                             *)
(***************************************************************************)
\* a calculate_gematria call has returned its dict
Returned == op \in {"calculate", "format", "tool"}
Failed == Returned /\ "error" \in DOMAIN result
Succeeded == Returned /\ "error" \notin DOMAIN result

\* the messages as the specification words them
\* 'No text provided'
MSG_NoText ==
    <<78, 111, 32, 116, 101, 120, 116, 32, 112, 114, 111, 118, 105, 100, 101, 100>>
\* 'No Hebrew characters found in text'
MSG_NoHebrew ==
    <<78, 111, 32, 72, 101, 98, 114, 101, 119, 32, 99, 104, 97, 114, 97, 99, 116, 101, 114, 115, 32, 102, 111, 117, 110, 100, 32, 105, 110, 32, 116, 101, 120, 116>>
\* 'Error: '
MSG_ToolPrefix ==
    <<69, 114, 114, 111, 114, 58, 32>>
\* 'Error: No text provided'
MSG_ToolNoText ==
    <<69, 114, 114, 111, 114, 58, 32, 78, 111, 32, 116, 101, 120, 116, 32, 112, 114, 111, 118, 105, 100, 101, 100>>
\* 'Error: No Hebrew characters found in text'
MSG_ToolNoHebrew ==
    <<69, 114, 114, 111, 114, 58, 32, 78, 111, 32, 72, 101, 98, 114, 101, 119, 32, 99, 104, 97, 114, 97, 99, 116, 101, 114, 115, 32, 102, 111, 117, 110, 100, 32, 105, 110, 32, 116, 101, 120, 116>>

\* the keys of the dict of a failure
ErrorKeys == {"error", "value", "breakdown"}

RECURSIVE SumOfValues(_)
SumOfValues(breakdown) ==
    IF breakdown = <<>> THEN 0
    ELSE Head(breakdown).value + SumOfValues(Tail(breakdown))

\* C1: in every non-error result of calculate_gematria, 'value' is the sum
\* of the 'value' fields of the entries of 'breakdown'.
C1_SumInvariant ==
    Succeeded => result.value = SumOfValues(result.breakdown)

\* a result over three letters of three different weights
C1_Witness ==
    /\ op = "calculate"
    /\ "error" \notin DOMAIN result
    /\ Len(result.breakdown) = 3
    /\ result.value = 300 + 40 + 20

\* C2: in every non-error result, 'character_count' is the length of
\* 'breakdown' and of 'cleaned_text', and the i-th entry of 'breakdown' holds
\* the i-th character of 'cleaned_text'.
C2_CountInvariant ==
    Succeeded =>
        /\ result.character_count = Len(result.breakdown)
        /\ result.character_count = Len(result.cleaned_text)
        /\ \A i \in 1..Len(result.cleaned_text) :
               result.breakdown[i].character = result.cleaned_text[i]

\* a result over two letters of an input that also holds a dropped character
C2_Witness ==
    /\ op = "calculate"
    /\ "error" \notin DOMAIN result
    /\ result.character_count = 2
    /\ Len(hebrew_text) = 3

\* the positions of the input that hold a key of the table
KeptPositions(table, text) ==
    {i \in 1..Len(text) : text[i] \in DOMAIN table}
\* the number of kept positions up to position i
Rank(P, i) == Cardinality({j \in P : j <= i})

\* C3: 'cleaned_text' is the subsequence of the input made of the keys of the
\* table, in order and with duplicates: the k-th kept position of the input
\* is the k-th character of cleaned_text, nothing else is in it, an input
\* with a kept position never fails, and a failing non-empty input has none;
\* "a-ש!b" gives cleaned_text "ש", value 300 and character_count 1.
C3_FilteringCorrect ==
    Returned =>
        LET P == KeptPositions(hebrew_values, hebrew_text) IN
        /\ P # {} => "error" \notin DOMAIN result
        /\ Succeeded =>
             /\ Len(result.cleaned_text) = Cardinality(P)
             /\ \A i \in P :
                    result.cleaned_text[Rank(P, i)] = hebrew_text[i]
             /\ \A k \in 1..Len(result.cleaned_text) :
                    result.cleaned_text[k] \in DOMAIN hebrew_values
        /\ hebrew_text = TextMixed =>
             /\ Succeeded
             /\ result.cleaned_text = <<1513>>
             /\ result.value = 300
             /\ result.character_count = 1

\* the input "a-ש!b" has been filtered
C3_Witness ==
    /\ op = "calculate"
    /\ hebrew_text = TextMixed
    /\ "cleaned_text" \in DOMAIN result
    /\ result.cleaned_text = <<1513>>

\* an input with a repeated letter between dropped characters was filtered
C3_WitnessDuplicates ==
    /\ op = "calculate"
    /\ hebrew_text = <<1513, 97, 1513>>
    /\ "cleaned_text" \in DOMAIN result
    /\ result.cleaned_text = <<1513, 1513>>

\* C4: calculate_gematria("") returns the error "No text provided" and
\* nothing of a result: no text, cleaned_text or character_count, and an
\* empty breakdown.
C4_EmptyInputError ==
    (Returned /\ hebrew_text = <<>>) =>
        /\ DOMAIN result = ErrorKeys
        /\ result.error = MSG_NoText
        /\ result.breakdown = <<>>

C4_Witness ==
    /\ op = "calculate"
    /\ hebrew_text = <<>>
    /\ "error" \in DOMAIN result

\* C5: a non-empty input without any key of the table returns the error
\* "No Hebrew characters found in text", never "No text provided" and never
\* a result: no text, cleaned_text or character_count, an empty breakdown.
C5_NoHebrewError ==
    (/\ Returned
     /\ hebrew_text # <<>>
     /\ \A i \in 1..Len(hebrew_text) : hebrew_text[i] \notin DOMAIN hebrew_values)
    =>
        /\ DOMAIN result = ErrorKeys
        /\ result.error = MSG_NoHebrew
        /\ result.error # MSG_NoText
        /\ result.breakdown = <<>>

\* "hello" has been refused
C5_Witness ==
    /\ op = "calculate"
    /\ hebrew_text = TextHello
    /\ "error" \in DOMAIN result

\* a whitespace-only input has been refused
C5_WitnessWhitespace ==
    /\ op = "calculate"
    /\ hebrew_text = <<32, 32>>
    /\ "error" \in DOMAIN result

\* C6: for either value of 'detailed' the tool returns "Error: No text
\* provided" for the empty input, "Error: No Hebrew characters found in
\* text" for a non-empty input without a key of the table, and neither of
\* the two for an input that holds a key of the table.
C6_ToolErrorMessages ==
    op = "tool" =>
        LET P == KeptPositions(hebrew_values, hebrew_text) IN
        /\ hebrew_text = <<>> => output = MSG_ToolNoText
        /\ (hebrew_text # <<>> /\ P = {}) => output = MSG_ToolNoHebrew
        /\ P # {} => output \notin {MSG_ToolNoText, MSG_ToolNoHebrew}
        /\ MSG_ToolNoText # MSG_ToolNoHebrew

\* a detailed tool call on an input without letters returned its message
C6_Witness ==
    /\ op = "tool"
    /\ detailed
    /\ hebrew_text = TextHello
    /\ output = MSG_ToolNoHebrew

\* a non-detailed tool call on the empty input returned its message
C6_WitnessSimpleEmpty ==
    /\ op = "tool"
    /\ ~detailed
    /\ hebrew_text = <<>>
    /\ output = MSG_ToolNoText

HasPrefix(s, prefix) ==
    Len(s) >= Len(prefix) /\ SubSeq(s, 1, Len(prefix)) = prefix

\* C7: a failure is never a result of value 0: every result of value 0 is
\* marked as an error, every non-error result has value >= character_count
\* >= 1, and the tool answers "Error: ..." exactly for the marked results.
C7_ZeroIsNeverValid ==
    Returned =>
        /\ result.value = 0 => "error" \in DOMAIN result
        /\ "error" \notin DOMAIN result =>
             /\ result.value >= result.character_count
             /\ result.character_count >= 1
        /\ op = "tool" =>
             ("error" \in DOMAIN result <=> HasPrefix(output, MSG_ToolPrefix))

\* a non-detailed tool call that failed: the case a 0 could have stood for
C7_Witness ==
    /\ op = "tool"
    /\ ~detailed
    /\ "error" \in DOMAIN result
    /\ result.value = 0
    /\ hebrew_text # <<>>

\* the base letters with their final forms: Kaf, Mem, Nun, Pe, Tzadi
FinalPairs == {<<1499, 1498>>, <<1502, 1501>>, <<1504, 1503>>,
               <<1508, 1507>>, <<1510, 1509>>}

\* the other form of a letter that has two forms
OtherForm(c) ==
    IF \E p \in FinalPairs : p[1] = c
    THEN (CHOOSE p \in FinalPairs : p[1] = c)[2]
    ELSE (CHOOSE p \in FinalPairs : p[2] = c)[1]

HasTwoForms(c) == \E p \in FinalPairs : c \in {p[1], p[2]}

\* C8: each final form has the weight of its base letter in the table, and
\* replacing an occurrence of a base letter by its final form, or the
\* reverse, leaves 'value' and 'character_count' unchanged.
C8_FinalFormEquivalence ==
    /\ \A p \in FinalPairs :
           /\ p[1] \in DOMAIN hebrew_values
           /\ p[2] \in DOMAIN hebrew_values
           /\ hebrew_values[p[1]] = hebrew_values[p[2]]
    /\ Succeeded =>
         \A i \in 1..Len(hebrew_text) :
             HasTwoForms(hebrew_text[i]) =>
                 LET swapped == [hebrew_text EXCEPT ![i] = OtherForm(@)]
                     other == CalculateGematria(hebrew_values, swapped) IN
                 /\ "error" \notin DOMAIN other
                 /\ other.value = result.value
                 /\ other.character_count = result.character_count

\* a result for an input with a base letter, a dropped character and a
\* final form
C8_Witness ==
    /\ op = "calculate"
    /\ hebrew_text = <<1499, 97, 1503>>
    /\ "error" \notin DOMAIN result
    /\ result.value = 70

\* C9: a call of calculate_gematria on the input of an earlier call, whatever
\* calls were made in between, returns the dict the earlier call returned
\* (the same error, or the same text, cleaned_text, value, breakdown and
\* character_count).
C9_Determinism ==
    (/\ op \in {"calculate", "tool"}
     /\ earlier # NoEarlier
     /\ earlier.text = hebrew_text)
    => result = earlier.result

\* the input of a kept successful call was called again after a call on
\* another input
C9_Witness ==
    /\ op = "calculate"
    /\ earlier # NoEarlier
    /\ earlier.text = hebrew_text
    /\ earlier.text = <<1513, 1501>>
    /\ "error" \notin DOMAIN result

\* a failing input was retried
C9_WitnessRetry ==
    /\ op = "tool"
    /\ earlier # NoEarlier
    /\ earlier.text = hebrew_text
    /\ "error" \in DOMAIN result
    /\ hebrew_text # <<>>

\* C10: after any sequence of calculate_gematria, format_result and tool
\* calls, successful or failing, hebrew_values holds its 27 initial keys (22
\* letters and 5 final forms), each with its initial positive weight.
C10_TableNeverMutated ==
    /\ hebrew_values = InitialTable
    /\ DOMAIN hebrew_values = 1488..1514
    /\ Cardinality(DOMAIN hebrew_values) = 27
    /\ Cardinality({p[2] : p \in FinalPairs}) = 5
    /\ \A c \in DOMAIN hebrew_values : hebrew_values[c] > 0

\* a failing tool call was made after a successful call that a caller kept
C10_Witness ==
    /\ op = "tool"
    /\ "error" \in DOMAIN result
    /\ earlier # NoEarlier
    /\ "error" \notin DOMAIN earlier.result
    /\ hebrew_values = InitialTable

\* C11: calculate_gematria gives value 376 and character_count 4 for
\* "שלום", value 13 and character_count 4 for "אהבה", and value 68 for "חיים".
C11_KnownValues ==
    Returned =>
        /\ hebrew_text = WordShalom =>
             /\ "error" \notin DOMAIN result
             /\ result.value = 376
             /\ result.character_count = 4
        /\ hebrew_text = WordAhava =>
             /\ "error" \notin DOMAIN result
             /\ result.value = 13
             /\ result.character_count = 4
        /\ hebrew_text = WordChaim =>
             /\ "error" \notin DOMAIN result
             /\ result.value = 68

\* "שלום" has been calculated
C11_Witness ==
    /\ op = "calculate"
    /\ hebrew_text = WordShalom
    /\ "value" \in DOMAIN result
    /\ result.value = 376

\* "אהבה" and "חיים" have been calculated
C11_WitnessAhava ==
    op = "calculate" /\ hebrew_text = WordAhava /\ result.value = 13
C11_WitnessChaim ==
    op = "calculate" /\ hebrew_text = WordChaim /\ result.value = 68

(***************************************************************************)
(* Reading a returned text back: its lines and the numbers written in it.  *)
(***************************************************************************)
Contains(s, sub) ==
    \E i \in 0..(Len(s) - Len(sub)) : SubSeq(s, i + 1, i + Len(sub)) = sub

HasSuffix(s, suffix) ==
    /\ Len(s) >= Len(suffix)
    /\ SubSeq(s, Len(s) - Len(suffix) + 1, Len(s)) = suffix

\* the pieces of s between its '\n' characters
RECURSIVE Lines(_)
Lines(s) ==
    IF \A i \in 1..Len(s) : s[i] # 10 THEN <<s>>
    ELSE LET k == CHOOSE i \in 1..Len(s) :
                      s[i] = 10 /\ \A j \in 1..(i - 1) : s[j] # 10 IN
         <<SubSeq(s, 1, k - 1)>> \o Lines(SubSeq(s, k + 1, Len(s)))

IsDigit(c) == c \in 48..57

\* the digits a text ends with
RECURSIVE TrailingDigits(_)
TrailingDigits(s) ==
    IF s = <<>> \/ ~IsDigit(s[Len(s)]) THEN <<>>
    ELSE TrailingDigits(SubSeq(s, 1, Len(s) - 1)) \o <<s[Len(s)]>>

RECURSIVE DecimalValue(_)
DecimalValue(d) ==
    IF d = <<>> THEN 0
    ELSE 10 * DecimalValue(SubSeq(d, 1, Len(d) - 1)) + (d[Len(d)] - 48)

\* the text ends with the decimal numeral of n, after something that is not
\* a digit
EndsWithNumber(s, n) ==
    LET d == TrailingDigits(s) IN
    /\ d # <<>>
    /\ Len(d) = 1 \/ d[1] # 48
    /\ DecimalValue(d) = n

\* "The Gematria value of '"
MSG_SimpleHead ==
    <<84, 104, 101, 32, 71, 101, 109, 97, 116, 114, 105, 97, 32, 118, 97, 108, 117, 101, 32, 111, 102, 32, 39>>
\* "' is "
MSG_SimpleMid ==
    <<39, 32, 105, 115, 32>>
\* "The Gematria value of 'שלום' is 376"
MSG_ShalomSentence ==
    <<84, 104, 101, 32, 71, 101, 109, 97, 116, 114, 105, 97, 32, 118, 97, 108, 117, 101, 32, 111, 102, 32, 39, 1513, 1500, 1493, 1501, 39, 32, 105, 115, 32, 51, 55, 54>>
\* "376"
MSG_376 ==
    <<51, 55, 54>>

\* C12: with detailed = false and an input that holds a key of the table,
\* the tool returns one sentence: the input text as given between quotes,
\* then the value of the result, on one line and without breakdown lines;
\* for "שלום" the sentence holds the literal 376.
C12_SimpleSentence ==
    (op = "tool" /\ ~detailed
       /\ KeptPositions(hebrew_values, hebrew_text) # {})
    =>
        LET head == MSG_SimpleHead \o hebrew_text \o MSG_SimpleMid IN
        /\ HasPrefix(output, head)
        /\ EndsWithNumber(output, result.value)
        /\ Len(output) = Len(head) + Len(TrailingDigits(output))
        /\ Len(Lines(output)) = 1
        /\ \A i \in 1..Len(result.breakdown) :
               ~Contains(output, result.breakdown[i].name)
        /\ hebrew_text = WordShalom =>
             /\ output = MSG_ShalomSentence
             /\ Contains(output, MSG_376)

\* the simple sentence for "שלום" has been returned
C12_Witness ==
    /\ op = "tool"
    /\ ~detailed
    /\ hebrew_text = WordShalom
    /\ output = MSG_ShalomSentence

\* a simple sentence for an input with dropped characters has been returned
C12_WitnessMixed ==
    /\ op = "tool"
    /\ ~detailed
    /\ hebrew_text = TextMixed
    /\ Contains(output, TextMixed)

\* a text returned by format_result is held in output
Formatted == op = "format" \/ (op = "tool" /\ detailed)

\* "  ", " (" and ") = ": the parts of a breakdown line around the
\* character, the display name and the weight
MSG_LineIndent ==
    <<32, 32>>
MSG_LineOpen ==
    <<32, 40>>
MSG_LineClose ==
    <<41, 32, 61, 32>>

\* the line shows the character, the display name and the weight of an entry
ShowsEntry(line, item) ==
    LET shown == MSG_LineIndent \o <<item.character>> \o MSG_LineOpen
                   \o item.name \o MSG_LineClose IN
    /\ HasPrefix(line, shown)
    /\ EndsWithNumber(line, item.value)
    /\ Len(line) = Len(shown) + Len(TrailingDigits(line))

\* the lines of the heading of a formatted result: the text, the total
\* value, the character count, an empty line and the title of the breakdown
HeadingLines == 5

\* C13: the detailed text of a non-error result holds the original text, the
\* total value and the character count, each on its line, and after them
\* exactly one line per entry of the breakdown, in the order of the
\* breakdown, each showing the character, the display name and the weight
\* of its entry.
C13_DetailedText ==
    (Formatted /\ "error" \notin DOMAIN result) =>
        LET lines == Lines(output)
            n == Len(result.breakdown) IN
        /\ Len(lines) = HeadingLines + n + 1
        /\ lines[Len(lines)] = <<>>
        /\ HasSuffix(lines[1], result.text)
        /\ EndsWithNumber(lines[2], result.value)
        /\ EndsWithNumber(lines[3], result.character_count)
        /\ lines[4] = <<>>
        /\ \A i \in 1..n :
               /\ ShowsEntry(lines[HeadingLines + i], result.breakdown[i])
               /\ result.breakdown[i].name =
                      GetHebrewLetterName(result.breakdown[i].character)

\* the detailed text of a result of three different letters was returned
C13_Witness ==
    /\ op = "tool"
    /\ detailed
    /\ hebrew_text = <<1513, 1502, 1498>>
    /\ Len(Lines(output)) = 9

\* format_result has formatted the result of "שלום"
C13_WitnessFormat ==
    /\ op = "format"
    /\ hebrew_text = WordShalom
    /\ Len(Lines(output)) = 10

\* '📊 Gematria Calculation for: '
MSG_Title ==
    <<128202, 32, 71, 101, 109, 97, 116, 114, 105, 97, 32, 67, 97, 108, 99, 117, 108, 97, 116, 105, 111, 110, 32, 102, 111, 114, 58, 32>>

\* C17: the 'text' of a non-error result is the input as given, with the
\* characters that cleaned_text lost, and the first line of the formatted
\* text shows this text.
C17_TextIsRawInput ==
    Succeeded =>
        /\ result.text = hebrew_text
        /\ Formatted => Lines(output)[1] = MSG_Title \o hebrew_text

\* format_result has formatted the result of an input with dropped
\* characters
C17_Witness ==
    /\ op = "format"
    /\ hebrew_text = TextMixed
    /\ "text" \in DOMAIN result
    /\ result.text # result.cleaned_text
    /\ Contains(output, TextMixed)

\* C18: for inputs s and t that each hold a key of the table, the result of
\* s + t has as cleaned_text and breakdown the concatenation, and as value
\* and character_count the sum, of those of the results of s and of t; and
\* the result of a result's cleaned_text has the value, breakdown and
\* character_count of that result.  (s is the input of the call a caller
\* kept, t the input of the last call.)
C18_Additivity ==
    /\ (/\ op \in {"calculate", "tool"}
        /\ "error" \notin DOMAIN result
        /\ earlier # NoEarlier
        /\ "error" \notin DOMAIN earlier.result)
       =>
        LET rs == earlier.result
            rt == result
            both == CalculateGematria(hebrew_values,
                                      earlier.text \o hebrew_text) IN
        /\ "error" \notin DOMAIN both
        /\ both.cleaned_text = rs.cleaned_text \o rt.cleaned_text
        /\ both.breakdown = rs.breakdown \o rt.breakdown
        /\ both.value = rs.value + rt.value
        /\ both.character_count = rs.character_count + rt.character_count
    /\ Succeeded =>
        LET again == CalculateGematria(hebrew_values, result.cleaned_text) IN
        /\ "error" \notin DOMAIN again
        /\ again.value = result.value
        /\ again.breakdown = result.breakdown
        /\ again.character_count = result.character_count

\* results of "שa" and of "םש" are held, the second after the first
C18_Witness ==
    /\ op = "calculate"
    /\ earlier # NoEarlier
    /\ earlier.text = <<1513, 97>>
    /\ hebrew_text = <<1501, 1513>>
    /\ "error" \notin DOMAIN result
    /\ result.value = 340

\* the numbers of the formatted text are those of the dict it was made from
PrintedFromResult ==
    "error" \notin DOMAIN result =>
        LET lines == Lines(output) IN
        /\ Len(lines) = HeadingLines + Len(result.breakdown) + 1
        /\ EndsWithNumber(lines[2], result.value)
        /\ EndsWithNumber(lines[3], result.character_count)
        /\ \A i \in 1..Len(result.breakdown) :
               EndsWithNumber(lines[HeadingLines + i],
                              result.breakdown[i].value)

\* C14: a format_result call leaves the dict it is given and the table as
\* they were, prints the value, the character count and the weights that
\* the dict holds (also when they are not those of its breakdown), and
\* returns the text it returned before for the same dict.
C14_FormatIsPure ==
    /\ [][op' = "format" =>
            /\ result' = result
            /\ hebrew_values' = hebrew_values
            /\ op = "format" => output' = output]_vars
    /\ [](op = "format" => PrintedFromResult)

\* a dict whose value and character_count are not those of its breakdown
\* has been formatted
C14_Witness ==
    /\ op = "format"
    /\ "error" \notin DOMAIN result
    /\ result.value # SumOfValues(result.breakdown)
    /\ result.character_count # Len(result.breakdown)
    /\ EndsWithNumber(Lines(output)[2], result.value)

\* the four kinds of input of the tool
IsEmptyInput == hebrew_text = <<>>
IsHebrewOnly ==
    hebrew_text # <<>>
      /\ \A i \in 1..Len(hebrew_text) : hebrew_text[i] \in DOMAIN hebrew_values
IsWithoutHebrew ==
    hebrew_text # <<>> /\ KeptPositions(hebrew_values, hebrew_text) = {}
IsMixed == ~IsEmptyInput /\ ~IsHebrewOnly /\ ~IsWithoutHebrew

\* the text is a success of the tool: the detailed text under its title, or
\* the simple sentence
IsSuccessText(s) ==
    IF detailed THEN HasPrefix(s, MSG_Title) ELSE HasPrefix(s, MSG_SimpleHead)

\* C16: for every input (empty, Hebrew only, mixed, without a Hebrew letter)
\* and either value of 'detailed' the tool can be called and its call
\* returns: it never raises, and the string it returns is either one of the
\* two error messages (for the empty input and the input without a letter)
\* or a success text (for the two other kinds), never both.
C16_ToolAlwaysAnswers ==
    /\ op # "raised"
    /\ op = "init" => ENABLED ToolCall
    /\ op = "tool" =>
         /\ IsEmptyInput => output = MSG_ToolNoText
         /\ IsWithoutHebrew => output = MSG_ToolNoHebrew
         /\ (IsHebrewOnly \/ IsMixed) =>
                /\ IsSuccessText(output)
                /\ output \notin {MSG_ToolNoText, MSG_ToolNoHebrew}
         /\ ~HasPrefix(MSG_ToolNoText, MSG_Title)
         /\ ~HasPrefix(MSG_ToolNoHebrew, MSG_SimpleHead)

\* the tool has answered a mixed input with the simple sentence
C16_Witness ==
    /\ op = "tool"
    /\ ~detailed
    /\ IsMixed
    /\ IsSuccessText(output)

\* the tool has answered the three other kinds of input
C16_WitnessEmpty == op = "tool" /\ detailed /\ IsEmptyInput
C16_WitnessHebrewOnly ==
    op = "tool" /\ detailed /\ IsHebrewOnly /\ IsSuccessText(output)
C16_WitnessWithoutHebrew == op = "tool" /\ ~detailed /\ IsWithoutHebrew

\* C15: in every interleaving of the steps of the concurrent calls, a call
\* that has returned holds the dict that calculate_gematria returns for its
\* input when run alone, and a call that has formatted holds the text of
\* that dict; the shared table stays as constructed, and a step changes the
\* locals of one call only.
C15_CallsAreIsolated ==
    /\ [](/\ hebrew_values = InitialTable
          /\ \A c \in Callers :
                LET alone == CalculateGematria(InitialTable, callers[c].text) IN
                /\ callers[c].pc \in {"returned", "format_loop", "formatted"}
                      => callers[c].ret = alone
                /\ callers[c].pc = "formatted"
                      => callers[c].output = FormatResult(alone))
    /\ [][\E c \in Callers :
             \A d \in Callers \ {c} : callers'[d] = callers[d]]_vars

\* caller 1 has its formatted text of value 340 while caller 2, on the same
\* input, is between the two iterations of its loop
C15_Witness ==
    /\ callers[1].pc = "formatted"
    /\ callers[1].text = <<1513, 97, 1501>>
    /\ callers[1].ret.value = 340
    /\ callers[2].pc = "loop"
    /\ callers[2].total_value = 300
    /\ callers[2].rest = <<1501>>

\* the built-in tools of the factory that was called
BuiltInTools ==
    IF agent.fn = "create_agent" THEN MainTools ELSE ShabbotTools

\* the MCP load failed, or it returned no tools
McpFailedOrEmpty == env.mcp.kind # "tools" \/ env.mcp.n = 0

\* C19 as stated: both factories return None whenever OPENAI_API_KEY is
\* unset, and whenever it is set they return an executor, whatever the MCP
\* load did; after a failed or empty MCP load the tool list is the built-in
\* tools.
C19_AsStated ==
    agent.pc = "done" =>
        /\ ~env.key.set => agent.returned = "None"
        /\ env.key.set => agent.returned = "executor"
        /\ (agent.returned = "executor" /\ McpFailedOrEmpty)
              => agent.tools = BuiltInTools

\* C19: both factories return None whenever OPENAI_API_KEY is unset or
\* empty; when it holds a value and ChatOpenAI can be constructed they
\* return an executor, whatever the MCP load did; when ChatOpenAI raises,
\* create_agent returns None and create_shabbot_agent lets the exception
\* out; after a failed or empty MCP load the tool list of the executor is
\* exactly the built-in tools, and after any other load it is the built-in
\* tools followed by the loaded ones.
C19_AgentCreationDegrades ==
    agent.pc = "done" =>
        /\ (~env.key.set \/ env.key.value = "") => agent.returned = "None"
        /\ (env.key.set /\ env.key.value # "" /\ env.llm = "ok")
              => agent.returned = "executor"
        /\ (env.key.set /\ env.key.value # "" /\ env.llm = "raises")
              => agent.returned =
                    (IF agent.fn = "create_agent" THEN "None" ELSE "raised")
        /\ agent.returned = "executor" =>
              /\ McpFailedOrEmpty => agent.tools = BuiltInTools
              /\ ~McpFailedOrEmpty =>
                    /\ Len(agent.tools) = Len(BuiltInTools) + env.mcp.n
                    /\ SubSeq(agent.tools, 1, Len(BuiltInTools)) = BuiltInTools

\* create_shabbot_agent has returned an executor of its three tools after
\* get_tools() raised
C19_Witness ==
    /\ agent.pc = "done"
    /\ agent.fn = "create_shabbot_agent"
    /\ env.mcp.kind = "get_tools_raises"
    /\ agent.returned = "executor"
    /\ Len(agent.tools) = 3

\* create_agent has returned None without a key, and an executor of eight
\* tools after a load of two
C19_WitnessNoKey ==
    /\ agent.pc = "done"
    /\ agent.fn = "create_agent"
    /\ env.key = KeyUnset
    /\ agent.returned = "None"
C19_WitnessLoaded ==
    /\ agent.pc = "done"
    /\ agent.fn = "create_agent"
    /\ agent.returned = "executor"
    /\ Len(agent.tools) = 8

\* 'quit', 'exit' and 'q' as the claim names them
MSG_Quit == <<113, 117, 105, 116>>
MSG_Exit == <<101, 120, 105, 116>>
MSG_Q == <<113>>

\* two characters are the same letter, whatever their case
SameLetter(x, y) ==
    \/ x = y
    \/ x \in 65..90 /\ x + 32 = y
    \/ y \in 65..90 /\ y + 32 = x

\* the line is one of the three words, in any case, between whitespace
SaysQuit(line) ==
    \E w \in {MSG_Quit, MSG_Exit, MSG_Q} :
        \E a \in 0..Len(line) :
            /\ a + Len(w) <= Len(line)
            /\ \A i \in 1..a : line[i] \in WhitespaceChars
            /\ \A i \in 1..Len(w) : SameLetter(line[a + i], w[i])
            /\ \A i \in (a + Len(w) + 1)..Len(line) :
                   line[i] \in WhitespaceChars

\* the line holds nothing but whitespace
IsBlank(line) == \A i \in 1..Len(line) : line[i] \in WhitespaceChars

\* C20: the loop runs only with an agent; it has ended only after a line
\* that says quit, exit or q (in any case, between whitespace) or after a
\* keyboard interrupt; the agent is handed no blank line, and a blank line
\* leaves the number of invocations as it was; an Exception raised by the
\* invocation is reported and the loop is back at its prompt.
C20_LoopEndsOnlyOnQuit ==
    /\ [](/\ loop.pc \in {"prompt", "invoke", "ended"}
                => agent.returned = "executor"
          /\ loop.pc = "ended"
                => \/ loop.raised = "KeyboardInterrupt"
                   \/ loop.raised = "nothing" /\ SaysQuit(loop.raw)
          /\ loop.pc = "invoke" => ~IsBlank(loop.raw)
          /\ (loop.pc = "prompt" /\ loop.raised = "nothing"
                 /\ loop.printed = "nothing")
                => IsBlank(loop.raw))
    /\ [][/\ loop'.invoked # loop.invoked
                => loop.pc = "invoke" /\ ~IsBlank(loop.raw)
          /\ (loop.pc = "invoke" /\ loop'.raised = "Exception")
                => loop'.pc = "prompt" /\ loop'.printed = "error"
          /\ (loop.pc = "prompt" /\ loop'.pc = "prompt"
                 /\ loop'.raised = "nothing")
                => loop'.invoked = loop.invoked]_vars

\* the loop has ended on ' Exit' followed by a tab, after one invocation
C20_Witness ==
    /\ loop.pc = "ended"
    /\ loop.raw = <<32, 69, 120, 105, 116, 9>>
    /\ loop.raised = "nothing"
    /\ loop.invoked = 1

\* an Exception of the agent has been reported and the loop is at its
\* prompt; a blank line has been read and the loop is at its prompt; an
\* interrupt has ended the loop
C20_WitnessException ==
    /\ loop.pc = "prompt"
    /\ loop.raised = "Exception"
    /\ loop.printed = "error"
C20_WitnessBlank ==
    /\ loop.pc = "prompt"
    /\ loop.raw = <<32, 32>>
    /\ loop.raised = "nothing"
    /\ loop.invoked = 1
C20_WitnessInterrupt ==
    /\ loop.pc = "ended"
    /\ loop.raised = "KeyboardInterrupt"

\* the messages of send_message as the claim names them
\* 'Slack not available. Please set SLACK_BOT_TOKEN environment variable.'
MSG_SlackNotAvailable ==
    <<83, 108, 97, 99, 107, 32, 110, 111, 116, 32, 97, 118, 97, 105, 108, 97, 98, 108, 101, 46, 32, 80, 108, 101, 97, 115, 101, 32, 115, 101, 116, 32, 83, 76, 65, 67, 75, 95, 66, 79, 84, 95, 84, 79, 75, 69, 78, 32, 101, 110, 118, 105, 114, 111, 110, 109, 101, 110, 116, 32, 118, 97, 114, 105, 97, 98, 108, 101, 46>>
\* 'No channel specified. Please set SLACK_CHANNEL_ID or provide a channel
\* parameter.'
MSG_SlackNoChannel ==
    <<78, 111, 32, 99, 104, 97, 110, 110, 101, 108, 32, 115, 112, 101, 99, 105, 102, 105, 101, 100, 46, 32, 80, 108, 101, 97, 115, 101, 32, 115, 101, 116, 32, 83, 76, 65, 67, 75, 95, 67, 72, 65, 78, 78, 69, 76, 95, 73, 68, 32, 111, 114, 32, 112, 114, 111, 118, 105, 100, 101, 32, 97, 32, 99, 104, 97, 110, 110, 101, 108, 32, 112, 97, 114, 97, 109, 101, 116, 101, 114, 46>>
\* 'Message sent successfully'
MSG_SlackSent ==
    <<77, 101, 115, 115, 97, 103, 101, 32, 115, 101, 110, 116, 32, 115, 117, 99, 99, 101, 115, 115, 102, 117, 108, 108, 121>>
\* 'Error'
MSG_SlackError ==
    <<69, 114, 114, 111, 114>>

\* a call of send_message has come to its end
SendDone == slack.pc = "ready" /\ slack.sends > 0
\* the call now made, or last made, has called chat_postMessage
ApiCalled == slack.api # "nothing"

\* what send_message does before and after the call of the API, apart from
\* raising: no client (as with no token) gives 'Slack not available' and no
\* call of the API; a client and no channel, given or default, gives 'No
\* channel specified' and no call; every call of the API is made with a
\* client and a non-empty channel, the given one if there is one, else the
\* default; a failure of the API that is returned is returned as an
\* 'Error...' string; the success message is returned after the API call
\* returned, and only then.
SendMessageGuarded ==
    /\ slack.pc # "not_imported" =>
          (~Truthy(slack.environ_token) => ~slack.client)
    /\ slack.calls # <<>> => slack.client
    /\ \A i \in 1..Len(slack.calls) : slack.calls[i].channel # <<>>
    /\ SendDone =>
          /\ ~slack.client =>
                /\ slack.returned.text = MSG_SlackNotAvailable
                /\ ~ApiCalled
          /\ (slack.client /\ ~Truthy(slack.channel)
                 /\ ~Truthy(slack.channel_id)) =>
                /\ slack.returned.text = MSG_SlackNoChannel
                /\ ~ApiCalled
          /\ ApiCalled =>
                slack.calls[Len(slack.calls)] =
                   [channel |-> IF Truthy(slack.channel)
                                THEN slack.channel.value
                                ELSE slack.channel_id.value,
                    text    |-> slack.message]
          /\ (slack.api \in {"SlackApiError", "Exception"}
                 /\ slack.returned.kind = "str") =>
                HasPrefix(slack.returned.text, MSG_SlackError)
          /\ HasPrefix(slack.returned.text, MSG_SlackSent)
                <=> slack.api = "returned"

\* C21: send_message never posts without its preconditions and never
\* raises: without a client it returns 'Slack not available' without a call
\* of the API; with a client and no channel it returns 'No channel
\* specified' without a call; a given channel goes before the default one;
\* every failure of the API is returned as an error string, and the success
\* message only after the post call returned.
C21_SendNeverRaises ==
    /\ SendMessageGuarded
    /\ slack.returned.kind # "raised"
    /\ SendDone => slack.returned.kind = "str"

\* C21, apart from the raise: the only call that does not return a string is
\* one whose API call raised SlackApiError, and all the rest of the claim
\* holds.
C21_RaisesOnlyInSlackApiErrorHandler ==
    /\ SendMessageGuarded
    /\ slack.returned.kind = "raised" => slack.api = "SlackApiError"
    /\ (SendDone /\ slack.api # "SlackApiError")
          => slack.returned.kind = "str"

\* send_message with channel 'C1' given and the default 'C0' has posted to
\* 'C1' and returned the success message
C21_Witness ==
    /\ SendDone
    /\ slack.channel = Given(<<67, 49>>)
    /\ slack.channel_id = Given(<<67, 48>>)
    /\ slack.api = "returned"
    /\ slack.calls[Len(slack.calls)].channel = <<67, 49>>
    /\ HasPrefix(slack.returned.text, MSG_SlackSent)

\* a failure of the API has been returned as an error string; a call
\* without a client and one without a channel have returned their messages
C21_WitnessApiFailure ==
    /\ SendDone
    /\ slack.api = "SlackApiError"
    /\ HasPrefix(slack.returned.text, MSG_SlackError)
C21_WitnessNoClient ==
    /\ SendDone
    /\ slack.environ_token = None
    /\ slack.returned.text = MSG_SlackNotAvailable
C21_WitnessNoChannel ==
    /\ SendDone
    /\ slack.client
    /\ slack.returned.text = MSG_SlackNoChannel
\* send_message has raised out of its SlackApiError handler
C21_WitnessRaised ==
    /\ SendDone
    /\ slack.api = "SlackApiError"
    /\ slack.returned.kind = "raised"

====
